---- MODULE Spec2Model ----
(***************************************************************************)
(* Model of the webhook ingest pipeline (WebhookServer, WebhookManager,    *)
(* Message/Ack/State handlers), of the tunnel lifecycle (NgrokManager) and *)
(* of the resource read-through cache (ResourceCache, ResourceManager) of  *)
(* waha-mcp.                                                               *)
(*                                                                         *)
(* JavaScript runs one synchronous segment at a time: every action below   *)
(* is one such segment (from an entry point or a resumed await up to the   *)
(* next await or return).                                                  *)
(***************************************************************************)
EXTENDS Integers, Sequences, FiniteSets, TLC

VARIABLES
    \* ---- WebhookServer / WebhookManager ----
    hmacKey,        \* WebhookServer.hmacKey ("" models an unset or empty key)
    server,         \* WebhookServer.server: "null" or "listening"
    eventHandlers,  \* WebhookServer.eventHandlers: event key -> callbacks
    reqState,       \* the POST /webhook request in flight: idle/awaiting/responded
    reqBody,        \* its parsed JSON body [event, shape]
    reqSig,         \* its x-webhook-hmac header
    resCode,        \* HTTP status sent for it (0: none yet)
    tasks,          \* the wrappers dispatchEvent created for it, in order
    handleCalls,    \* handle() invocations per event handler, for this request
    emitted,        \* notifications handed to mcpServer.notification, this request
    log,            \* console.error lines of this request, counted by kind
    \* ---- ResourceCache / ResourceManager ----
    cacheEnabled,   \* CacheConfig.enabled
    ttlSeconds,     \* CacheConfig.ttlSeconds
    cache,          \* ResourceCache.cache: key -> [data, timestamp, expiresAt]
    accessOrder,    \* ResourceCache.accessOrder, least recently used first
    now,            \* Date.now(), in milliseconds
    resources,      \* ResourceManager.resources, in insertion order
    reads,          \* readResource calls awaiting their producer, per URI
    lastOp,         \* the cache call just made and what it returned
    lastRead,       \* the readResource step just made and its outcome
    recency,        \* stored keys by their latest access, oldest first
    \* ---- NgrokManager ----
    listener,       \* NgrokManager.listener
    publicUrl,      \* NgrokManager.publicUrl
    tunnels,        \* the tunnels open at the provider
    forwards,       \* start() calls awaiting ngrok.forward
    closing,        \* stop() calls awaiting listener.close(), per tunnel
    opened,         \* how many tunnels the provider has opened so far
    lastCall,       \* the start/stop step just made and what it returned
    stopRaced,      \* stop() was called while a start() was waiting
    \* ---- WAHAMCPServer.run / WebhookManager.start ----
    webhookEnabled, \* config.webhook.enabled
    autoStart,      \* config.webhook.autoStart
    phase,          \* where run() stands: the await it is suspended at
    startResult,    \* how WebhookManager.start() ended, as run() saw it
    registrations,  \* the PUT requests made by updateSessionWebhook, in order
    \* ---- MessageHandler ----
    message,        \* the payload handed to MessageHandler.handle
    notification,   \* the data it handed to emitNotification
    preview         \* the text it interpolated into its log line

webhookVars == <<hmacKey, server, eventHandlers, reqState, reqBody, reqSig,
                 resCode, tasks, handleCalls, emitted, log>>

cacheVars == <<cacheEnabled, ttlSeconds, cache, accessOrder, now, resources,
               reads, lastOp, lastRead, recency>>

ngrokVars == <<listener, publicUrl, tunnels, forwards, closing, opened,
               lastCall, stopRaced>>

runVars == <<webhookEnabled, autoStart, phase, startResult, registrations>>

messageVars == <<message, notification, preview>>

vars == <<webhookVars, cacheVars, ngrokVars, runVars, messageVars>>

(***************************************************************************)
(* Bounds and input sets                                                   *)
(***************************************************************************)
\* Callbacks registered through WebhookServer.on beyond the manager's own.
MaxExtraHandlers == 2

\* JavaScript undefined (an absent header or field).
Undefined == "<undefined>"

\* Values of WEBHOOK_HMAC_KEY; "" and undefined are both falsy in the code.
\* "k2" is a key the server is never configured with (a foreign sender's).
Keys == {"", "k1", "k2"}
ConfiguredKeys == {"", "k1"}

\* The event field of a request body: absent, empty, the three subscribed
\* types, message.any, a type no handler knows, and the string "*" (the
\* field is an open string chosen by the sender).
EventInputs == <<Undefined, "", "message", "message.any", "message.ack",
                 "state.change", "group.join", "*">>

\* The payload field of a request body: what handle() depends on.
\*   wellFormed  - an object with a string body
\*   missing     - payload absent or null
\*   numericBody - payload.body is a non-zero number
ShapeInputs == <<"wellFormed", "missing", "numericBody">>

Bodies == {[event |-> EventInputs[i], shape |-> ShapeInputs[j]] :
             i \in 1..Len(EventInputs), j \in 1..Len(ShapeInputs)}

IndexOf(seq, x) == CHOOSE i \in 1..Len(seq) : seq[i] = x

\* Variant: only an absent value is rejected.
falsyUndefinedOnly(v) == v = Undefined

\* JavaScript's `!v` for the values the model passes to it.
Falsy(v) == v \in {Undefined, ""}

\* A header that is not in the request (headers are character sequences).
AbsentHeader == <<Undefined>>

\* The request slot's body while no request is in flight.
NoBody == [event |-> Undefined, shape |-> "missing"]

(***************************************************************************)
(* HMAC: createHmac("sha256", key).update(body).digest("hex")              *)
(***************************************************************************)
HexChars == <<"0","1","2","3","4","5","6","7","8","9","a","b","c","d","e","f">>

KeyCode(key) == IndexOf(<<"", "k1", "k2">>, key)

BodyCode(body) ==
    IndexOf(EventInputs, body.event) * Len(ShapeInputs)
      + IndexOf(ShapeInputs, body.shape)

\* A keyed hash of the raw body, as a number of two hex digits (SHA-256
\* gives 64).
HmacNumber(key, body) == (KeyCode(key) * 89 + BodyCode(body) * 37 + 11) % 256

\* digest("hex"): lower-case hex, most significant digit first.
HexDigest(key, body) ==
    LET n == HmacNumber(key, body)
    IN  <<HexChars[(n \div 16) + 1], HexChars[(n % 16) + 1]>>

\* crypto.timingSafeEqual on two buffers of equal length.
timingSafeEqual(a, b) == \A i \in 1..Len(a) : a[i] = b[i]

\* Variant: a request without a signature header skips validation.
validateHmacNoMissingCheck(key, body, signature) ==
    IF signature = AbsentHeader \/ signature = <<>>
    THEN TRUE
    ELSE LET expectedHmac == HexDigest(key, body)
         IN  IF Len(expectedHmac) # Len(signature)
             THEN FALSE
             ELSE timingSafeEqual(expectedHmac, signature)

\* WebhookServer.validateHmac(body, signature)
validateHmac(key, body, signature) ==
    IF key = "" \/ signature = AbsentHeader \/ signature = <<>>
    THEN FALSE
    ELSE LET expectedHmac == HexDigest(key, body)
         IN  IF Len(expectedHmac) # Len(signature)
             THEN FALSE
             ELSE timingSafeEqual(expectedHmac, signature)

\* A hex character other than c.
OtherHex(c) == HexChars[(IndexOf(HexChars, c) % 16) + 1]

\* The x-webhook-hmac headers a sender may attach to `body`: none, an empty
\* one, the digest under each key, a digest with one character changed, a
\* truncated digest and an over-long one.
SignatureInputs(body) ==
    {AbsentHeader, <<>>}
      \cup {HexDigest(k, body) : k \in Keys \ {""}}
      \cup {[HexDigest("k1", body) EXCEPT ![i] = OtherHex(@)] :
              i \in 1..Len(HexDigest("k1", body))}
      \cup {Tail(HexDigest("k1", body)), HexDigest("k1", body) \o <<"0">>}

(***************************************************************************)
(* Event handlers (MessageHandler, AckHandler, StateHandler)               *)
(***************************************************************************)
\* WebhookManager.handlers, in the order the constructor builds it.
Handlers == <<"message", "ack", "state">>

\* Variant: the Message handler also claims message.ack.
canHandleOverlapping(h, eventType) ==
    CASE h = "message" -> eventType \in {"message", "message.any", "message.ack"}
      [] h = "ack"     -> eventType = "message.ack"
      [] h = "state"   -> eventType = "state.change"

\* MessageHandler.canHandle, AckHandler.canHandle, StateHandler.canHandle
canHandle(h, eventType) ==
    CASE h = "message" -> eventType \in {"message", "message.any"}
      [] h = "ack"     -> eventType = "message.ack"
      [] h = "state"   -> eventType = "state.change"

\* Whether handle() of handler h throws before it reaches emitNotification.
\* Every handler dereferences payload.payload; MessageHandler also calls
\* truncate(text, 50) on the body, which throws on a non-string.
handleThrows(h, shape) ==
    \/ shape = "missing"
    \/ h = "message" /\ shape = "numericBody"

\* One call of handle(payload): the handler's synchronous part, up to the
\* await of mcpServer.notification inside emitNotification.
\*   st "threw"   - handle() rejected before emitting
\*   st "pending" - the notification was handed over and is awaited
handle(h, body) ==
    IF handleThrows(h, body.shape)
    THEN [h |-> h, st |-> "threw", threw |-> TRUE, emitted |-> FALSE,
          noHandler |-> FALSE]
    ELSE [h |-> h, st |-> "pending", threw |-> FALSE, emitted |-> TRUE,
          noHandler |-> FALSE]

\* Array.prototype.find over the handler list: the first that can handle.
find(hs, eventType) ==
    LET ok == {i \in 1..Len(hs) : canHandle(hs[i], eventType)}
    IN  IF ok = {} THEN Undefined
        ELSE hs[CHOOSE i \in ok : \A j \in ok : i <= j]

\* Variant: an unmatched event is dropped silently.
managerCallbackNoLog(body) ==
    LET handler == find(Handlers, body.event)
    IN  IF handler # Undefined
        THEN handle(handler, body)
        ELSE [h |-> Undefined, st |-> "returned", threw |-> FALSE,
              emitted |-> FALSE, noHandler |-> FALSE]

\* The callback WebhookManager.setupEventHandlers registers with onAll.
managerCallback(body) ==
    LET handler == find(Handlers, body.event)
    IN  IF handler # Undefined
        THEN handle(handler, body)
        ELSE [h |-> Undefined, st |-> "returned", threw |-> FALSE,
              emitted |-> FALSE, noHandler |-> TRUE]

\* A callback of the server called with the payload: "mgr" is the
\* manager's, any other name is the handle method of that event handler
\* registered directly. The result is the wrapper dispatchEvent holds for it.
runCallback(cb, body) ==
    LET r == IF cb = "mgr" THEN managerCallback(body) ELSE handle(cb, body)
    IN  [cb |-> cb, h |-> r.h, st |-> r.st, threw |-> r.threw,
         emitted |-> r.emitted, noHandler |-> r.noHandler]

(***************************************************************************)
(* WebhookServer: registry and dispatch                                    *)
(***************************************************************************)
\* The keys of eventHandlers the model registers under.
EventKeys == {"message", "*"}

\* Callbacks a caller of WebhookServer.on may pass.
ExtraCallbacks == {"message", "ack"}

registered(key) == eventHandlers[key]

\* dispatchEvent, lines 172-178: [...specificHandlers, ...wildcardHandlers].
\* Map.get of a key never registered gives undefined, hence [].
allHandlers(eventType) ==
    (IF eventType \in EventKeys THEN registered(eventType) ELSE <<>>)
      \o registered("*")

\* Variant: only the first handler is called before the first await.
dispatchEventSequential(all, body) ==
    [i \in 1..Len(all) |->
        IF i = 1 THEN runCallback(all[i], body)
        ELSE [cb |-> all[i], h |-> Undefined, st |-> "notStarted",
              threw |-> FALSE, emitted |-> FALSE, noHandler |-> FALSE]]

\* dispatchEvent, lines 186-194: allHandlers.map(async (handler) => ...)
\* calls every handler in turn, each running to its first pending await,
\* before Promise.all is awaited. The result is one wrapper per handler.
dispatchEvent(all, body) ==
    [i \in 1..Len(all) |-> runCallback(all[i], body)]

\* Variant: no try/catch in the wrapper, a rejection propagates.
propagateHandlerError(st) == IF st = "threw" THEN "rejected" ELSE "done"

\* The wrapper's try/catch around `await handler(payload)`: a rejection is
\* logged and the wrapper completes normally.
wrapperResume(st) == "done"

\* Variant: dispatch is not awaited (fire and forget).
responseWithoutAwait(ts) == TRUE

\* `await Promise.all(...)` resumes once every wrapper has completed, or as
\* soon as one of them rejects.
dispatchSettled(ts) ==
    \/ \A i \in 1..Len(ts) : ts[i].st = "done"
    \/ \E i \in 1..Len(ts) : ts[i].st = "rejected"

NoLog == [authFailed |-> 0, invalidPayload |-> 0, noHandlersRegistered |-> 0,
          noHandlerFound |-> 0, handlerError |-> 0, emitFailed |-> 0,
          processingError |-> 0]

NoCalls == [h \in {Handlers[i] : i \in 1..Len(Handlers)} |-> 0]

\* Counts over the wrappers of one dispatch.
NumCalls(ts, h) == Cardinality({i \in 1..Len(ts) : ts[i].h = h})
NumEmitted(ts) == Cardinality({i \in 1..Len(ts) : ts[i].emitted})
NumNoHandler(ts) == Cardinality({i \in 1..Len(ts) : ts[i].noHandler})

NumRegistered == Len(registered("message")) + Len(registered("*"))

(***************************************************************************)
(* Initial state: WebhookManager constructed, nothing started              *)
(***************************************************************************)
InitWebhook ==
    /\ hmacKey \in ConfiguredKeys
    /\ server = "null"
    /\ eventHandlers = [k \in EventKeys |-> IF k = "*" THEN <<"mgr">> ELSE <<>>]
    /\ reqState = "idle"
    /\ reqBody = NoBody
    /\ reqSig = AbsentHeader
    /\ resCode = 0
    /\ tasks = <<>>
    /\ handleCalls = NoCalls
    /\ emitted = 0
    /\ log = NoLog

(***************************************************************************)
(* Actions                                                                 *)
(***************************************************************************)
\* WebhookServer.start(): app.listen succeeded.
ServerStart ==
    /\ server = "null"
    /\ server' = "listening"
    /\ UNCHANGED <<hmacKey, eventHandlers, reqState, reqBody, reqSig, resCode,
                   tasks, handleCalls, emitted, log>>
    /\ UNCHANGED <<cacheVars, ngrokVars, runVars, messageVars>>

\* WebhookServer.stop(): server.close calls back once no request is open.
ServerStop ==
    /\ server = "listening"
    /\ reqState = "idle"
    /\ server' = "null"
    /\ UNCHANGED <<hmacKey, eventHandlers, reqState, reqBody, reqSig, resCode,
                   tasks, handleCalls, emitted, log>>
    /\ UNCHANGED <<cacheVars, ngrokVars, runVars, messageVars>>

\* WebhookServer.on(event, handler) and onAll(handler) (event = "*").
On(event, handler) ==
    /\ NumRegistered < 1 + MaxExtraHandlers
    /\ eventHandlers' = [eventHandlers EXCEPT ![event] = Append(@, handler)]
    /\ UNCHANGED <<hmacKey, server, reqState, reqBody, reqSig, resCode, tasks,
                   handleCalls, emitted, log>>
    /\ UNCHANGED <<cacheVars, ngrokVars, runVars, messageVars>>

\* POST /webhook, lines 60-90: the route handler from its entry to its
\* response (401, 400) or to the await of dispatchEvent.
PostWebhook(body, signature) ==
    /\ server = "listening"
    /\ reqState = "idle"
    /\ reqBody' = body
    /\ reqSig' = signature
    /\ IF hmacKey # "" /\ ~validateHmac(hmacKey, body, signature)
       THEN /\ resCode' = 401
            /\ reqState' = "responded"
            /\ log' = [log EXCEPT !.authFailed = 1]
            /\ UNCHANGED <<tasks, handleCalls, emitted>>
       ELSE IF Falsy(body.event)
       THEN /\ resCode' = 400
            /\ reqState' = "responded"
            /\ log' = [log EXCEPT !.invalidPayload = 1]
            /\ UNCHANGED <<tasks, handleCalls, emitted>>
       ELSE LET all == allHandlers(body.event)
                ts  == dispatchEvent(all, body)
            IN  /\ tasks' = ts
                /\ handleCalls' =
                     [h \in DOMAIN handleCalls |-> NumCalls(ts, h)]
                /\ emitted' = NumEmitted(ts)
                /\ log' = [log EXCEPT
                     !.noHandlersRegistered = IF Len(all) = 0 THEN 1 ELSE 0,
                     !.noHandlerFound = NumNoHandler(ts)]
                /\ reqState' = "awaiting"
                /\ resCode' = 0
    /\ UNCHANGED <<hmacKey, server, eventHandlers>>
    /\ UNCHANGED <<cacheVars, ngrokVars, runVars, messageVars>>

\* mcpServer.notification settles for wrapper i: emitNotification logs the
\* outcome (a failure is caught there), handle() returns.
NotificationSettles(i, delivered) ==
    /\ reqState = "awaiting"
    /\ i \in 1..Len(tasks)
    /\ tasks[i].st = "pending"
    /\ tasks' = [tasks EXCEPT ![i].st = "returned"]
    /\ log' = [log EXCEPT !.emitFailed = @ + (IF delivered THEN 0 ELSE 1)]
    /\ UNCHANGED <<hmacKey, server, eventHandlers, reqState, reqBody, reqSig,
                   resCode, handleCalls, emitted>>
    /\ UNCHANGED <<cacheVars, ngrokVars, runVars, messageVars>>

\* mcpServer.notification never settles for wrapper i.
NotificationHangs(i) ==
    /\ reqState = "awaiting"
    /\ i \in 1..Len(tasks)
    /\ tasks[i].st = "pending"
    /\ tasks' = [tasks EXCEPT ![i].st = "hung"]
    /\ UNCHANGED <<hmacKey, server, eventHandlers, reqState, reqBody, reqSig,
                   resCode, handleCalls, emitted, log>>
    /\ UNCHANGED <<cacheVars, ngrokVars, runVars, messageVars>>

\* Wrapper i resumes from `await handler(payload)`, lines 188-192.
WrapperResume(i) ==
    /\ reqState = "awaiting"
    /\ i \in 1..Len(tasks)
    /\ \/ /\ tasks[i].st = "returned"
          /\ tasks' = [tasks EXCEPT ![i].st = "done"]
          /\ UNCHANGED log
       \/ /\ tasks[i].st = "threw"
          /\ tasks' = [tasks EXCEPT ![i].st = wrapperResume("threw")]
          /\ log' = [log EXCEPT !.handlerError =
                       @ + (IF wrapperResume("threw") = "done" THEN 1 ELSE 0)]
    /\ UNCHANGED <<hmacKey, server, eventHandlers, reqState, reqBody, reqSig,
                   resCode, handleCalls, emitted>>
    /\ UNCHANGED <<cacheVars, ngrokVars, runVars, messageVars>>

\* The route handler resumes from `await this.dispatchEvent(payload)`,
\* lines 90-98: the success response, or 500 from the catch block.
Respond ==
    /\ reqState = "awaiting"
    /\ dispatchSettled(tasks)
    /\ reqState' = "responded"
    /\ IF \E i \in 1..Len(tasks) : tasks[i].st = "rejected"
       THEN /\ resCode' = 500
            /\ log' = [log EXCEPT !.processingError = 1]
       ELSE /\ resCode' = 200
            /\ UNCHANGED log
    /\ UNCHANGED <<hmacKey, server, eventHandlers, reqBody, reqSig, tasks,
                   handleCalls, emitted>>
    /\ UNCHANGED <<cacheVars, ngrokVars, runVars, messageVars>>

\* The exchange is over; the next request may arrive.
RequestDone ==
    /\ reqState = "responded"
    /\ reqState' = "idle"
    /\ reqBody' = NoBody
    /\ reqSig' = AbsentHeader
    /\ resCode' = 0
    /\ tasks' = <<>>
    /\ handleCalls' = NoCalls
    /\ emitted' = 0
    /\ log' = NoLog
    /\ UNCHANGED <<hmacKey, server, eventHandlers>>
    /\ UNCHANGED <<cacheVars, ngrokVars, runVars, messageVars>>

RequestStep ==
    \/ \E b \in Bodies : \E s \in SignatureInputs(b) : PostWebhook(b, s)
    \/ \E i \in 1..(1 + MaxExtraHandlers) :
          \/ \E d \in BOOLEAN : NotificationSettles(i, d)
          \/ NotificationHangs(i)
          \/ WrapperResume(i)
    \/ Respond
    \/ RequestDone

(***************************************************************************)
(* NgrokManager                                                            *)
(***************************************************************************)
\* Tunnels the provider opens in one run, pending requests included.
MaxTunnels == 2

Handles == 1..MaxTunnels

\* listener = null
NoListener == [id |-> 0, url |-> <<>>]

\* publicUrl = null; also a listener whose url() is empty.
NullUrl == <<>>

\* The URL the provider gives tunnel h.
UrlOf(h) == <<"https://tunnel", h>>

NoCall == [op |-> "none", wasActive |-> FALSE, url |-> NullUrl]

\* NgrokManager.getPublicUrl()
getPublicUrl == publicUrl

\* NgrokManager.isActive()
isActive == listener # NoListener /\ publicUrl # NullUrl

RECURSIVE SumOver(_, _)
SumOver(f, dom) ==
    IF dom = {} THEN 0
    ELSE LET x == CHOOSE y \in dom : TRUE
         IN  f[x] + SumOver(f, dom \ {x})

\* new NgrokManager(port, authToken)
InitNgrok ==
    /\ listener = NoListener
    /\ publicUrl = NullUrl
    /\ tunnels = {}
    /\ forwards = 0
    /\ closing = [h \in Handles |-> 0]
    /\ opened = 0
    /\ lastCall = NoCall
    /\ stopRaced = FALSE

\* start() up to `await ngrok.forward(options)`, lines 267-283. Nothing
\* looks at this.listener or this.publicUrl before the request is made.
StartCall ==
    /\ opened + forwards < MaxTunnels
    /\ forwards' = forwards + 1
    /\ lastCall' = [op |-> "start", wasActive |-> isActive, url |-> publicUrl]
    /\ stopRaced' = FALSE
    /\ UNCHANGED <<listener, publicUrl, tunnels, closing, opened>>
    /\ UNCHANGED <<webhookVars, cacheVars, runVars, messageVars>>

\* ngrok.forward resolved with a new listener: lines 283-293, or the throw
\* of line 287 caught at 294-298 when listener.url() is empty.
ForwardResolves(urlGiven) ==
    LET h == opened + 1
        url == IF urlGiven THEN UrlOf(h) ELSE NullUrl
    IN  /\ forwards > 0
        /\ forwards' = forwards - 1
        /\ opened' = h
        /\ tunnels' = tunnels \cup {h}
        /\ listener' = [id |-> h, url |-> url]
        /\ IF url = NullUrl
           THEN /\ UNCHANGED publicUrl
                /\ lastCall' = [NoCall EXCEPT !.op = "startThrew"]
           ELSE /\ publicUrl' = url
                /\ lastCall' = [NoCall EXCEPT !.op = "startReturned", !.url = url]
        /\ UNCHANGED <<closing, stopRaced>>
        /\ UNCHANGED <<webhookVars, cacheVars, runVars, messageVars>>

\* ngrok.forward rejected: lines 294-298.
ForwardRejects ==
    /\ forwards > 0
    /\ forwards' = forwards - 1
    /\ lastCall' = [NoCall EXCEPT !.op = "startThrew"]
    /\ UNCHANGED <<listener, publicUrl, tunnels, closing, opened, stopRaced>>
    /\ UNCHANGED <<webhookVars, cacheVars, runVars, messageVars>>

\* stop() up to `await this.listener.close()`, or all of it when there is no
\* listener.
StopCall ==
    /\ IF listener = NoListener
       THEN /\ lastCall' = [NoCall EXCEPT !.op = "stopReturned"]
            /\ UNCHANGED closing
       ELSE /\ SumOver(closing, Handles) < MaxTunnels
            /\ closing' = [closing EXCEPT ![listener.id] = @ + 1]
            /\ lastCall' = [NoCall EXCEPT !.op = "stop"]
    /\ stopRaced' = (stopRaced \/ forwards > 0)
    /\ UNCHANGED <<listener, publicUrl, tunnels, forwards, opened>>
    /\ UNCHANGED <<webhookVars, cacheVars, runVars, messageVars>>

\* listener.close() resolved: lines 309-311.
CloseResolves(h) ==
    /\ closing[h] > 0
    /\ closing' = [closing EXCEPT ![h] = @ - 1]
    /\ tunnels' = tunnels \ {h}
    /\ listener' = NoListener
    /\ publicUrl' = NullUrl
    /\ lastCall' = [NoCall EXCEPT !.op = "stopReturned"]
    /\ UNCHANGED <<forwards, opened, stopRaced>>
    /\ UNCHANGED <<webhookVars, cacheVars, runVars, messageVars>>

\* listener.close() rejected: lines 312-314. The catch block only logs.
CloseRejects(h) ==
    /\ closing[h] > 0
    /\ closing' = [closing EXCEPT ![h] = @ - 1]
    /\ lastCall' = [NoCall EXCEPT !.op = "stopReturned"]
    /\ UNCHANGED <<listener, publicUrl, tunnels, forwards, opened, stopRaced>>
    /\ UNCHANGED <<webhookVars, cacheVars, runVars, messageVars>>

NextNgrok ==
    \/ StartCall
    \/ \E urlGiven \in BOOLEAN : ForwardResolves(urlGiven)
    \/ ForwardRejects
    \/ StopCall
    \/ \E h \in Handles : CloseResolves(h) \/ CloseRejects(h)

(***************************************************************************)
(* WAHAMCPServer.run and WebhookManager.start                              *)
(***************************************************************************)
\* WAHAEventType.MESSAGE, MESSAGE_ACK, STATE_CHANGE: what start() subscribes.
SubscribedEvents == <<"message", "message.ack", "state.change">>

WebhookPath == "/webhook"

\* NgrokManager.getWebhookUrl(path): `${this.publicUrl}${path}`, or null.
getWebhookUrl(url, path) ==
    IF url = NullUrl THEN NullUrl ELSE Append(url, path)

\* WAHAClient.updateSessionWebhook: the body it PUTs; hmac is added only for
\* a truthy key.
updateSessionWebhookAlwaysHmac(url, events, key) ==
    [url |-> url, events |-> events, hmac |-> key]

updateSessionWebhook(url, events, key) ==
    [url |-> url, events |-> events,
     hmac |-> IF Falsy(key) THEN Undefined ELSE key]

\* run(), lines 2827-2839: the catch block logs and falls through, so run()
\* goes on to server.connect however start() ended.
runExitsOnFailure(result) ==
    IF result \in {"started", "skipped"} THEN "connect" ELSE "exited"

runContinues(result) == "connect"

\* new WAHAMCPServer(): nothing started, the configuration read.
InitRun ==
    /\ webhookEnabled \in BOOLEAN
    /\ autoStart \in BOOLEAN
    /\ phase = "created"
    /\ startResult = "none"
    /\ registrations = <<>>

\* run() is not part of the exploration.
RunAtRest ==
    /\ webhookEnabled = FALSE
    /\ autoStart = FALSE
    /\ phase = "created"
    /\ startResult = "none"
    /\ registrations = <<>>

\* run() up to its first await: `await this.webhookServer.start()` inside
\* WebhookManager.start when webhooks are enabled and auto-started,
\* `await this.server.connect(transport)` otherwise.
RunBegins ==
    /\ phase = "created"
    /\ IF webhookEnabled /\ autoStart
       THEN /\ phase' = "listen"
            /\ UNCHANGED startResult
       ELSE /\ startResult' = "skipped"
            /\ phase' = runContinues("skipped")
    /\ UNCHANGED <<webhookEnabled, autoStart, registrations>>
    /\ UNCHANGED <<webhookVars, cacheVars, ngrokVars, messageVars>>

\* app.listen called back: webhookServer.start() resolves and start() runs
\* on into ngrokManager.start() up to `await ngrok.forward(options)`.
ListenSucceeds ==
    /\ phase = "listen"
    /\ server' = "listening"
    /\ forwards' = forwards + 1
    /\ lastCall' = [op |-> "start", wasActive |-> isActive, url |-> publicUrl]
    /\ stopRaced' = FALSE
    /\ phase' = "forward"
    /\ UNCHANGED <<listener, publicUrl, tunnels, closing, opened>>
    /\ UNCHANGED <<hmacKey, eventHandlers, reqState, reqBody, reqSig, resCode,
                   tasks, handleCalls, emitted, log>>
    /\ UNCHANGED <<webhookEnabled, autoStart, startResult, registrations>>
    /\ UNCHANGED <<cacheVars, messageVars>>

\* The http server emitted "error" (the port is taken): webhookServer.start()
\* rejects, start() rethrows, run() catches.
ListenFails ==
    /\ phase = "listen"
    /\ startResult' = "listenFailed"
    /\ phase' = runContinues("listenFailed")
    /\ UNCHANGED <<webhookEnabled, autoStart, registrations>>
    /\ UNCHANGED <<webhookVars, cacheVars, ngrokVars, messageVars>>

\* ngrok.forward resolved. With a URL, ngrokManager.start() returns it and
\* start() runs on through getWebhookUrl into updateSessionWebhook up to
\* `await this.request(...)`. With an empty URL ngrokManager.start() throws,
\* start() rethrows and run() catches.
TunnelOpens(urlGiven) ==
    LET h == opened + 1
        url == IF urlGiven THEN UrlOf(h) ELSE NullUrl
        webhookUrl == getWebhookUrl(url, WebhookPath)
    IN  /\ phase = "forward"
        /\ forwards > 0
        /\ forwards' = forwards - 1
        /\ opened' = h
        /\ tunnels' = tunnels \cup {h}
        /\ listener' = [id |-> h, url |-> url]
        /\ IF url = NullUrl
           THEN /\ UNCHANGED publicUrl
                /\ lastCall' = [NoCall EXCEPT !.op = "startThrew"]
                /\ startResult' = "tunnelFailed"
                /\ phase' = runContinues("tunnelFailed")
                /\ UNCHANGED registrations
           ELSE /\ publicUrl' = url
                /\ lastCall' = [NoCall EXCEPT !.op = "startReturned", !.url = url]
                /\ IF webhookUrl = NullUrl
                   THEN /\ startResult' = "tunnelFailed"
                        /\ phase' = runContinues("tunnelFailed")
                        /\ UNCHANGED registrations
                   ELSE /\ registrations' =
                              Append(registrations,
                                     updateSessionWebhook(webhookUrl,
                                                          SubscribedEvents,
                                                          hmacKey))
                        /\ phase' = "register"
                        /\ UNCHANGED startResult
        /\ UNCHANGED <<closing, stopRaced>>
        /\ UNCHANGED <<webhookEnabled, autoStart>>
        /\ UNCHANGED <<webhookVars, cacheVars, messageVars>>

\* ngrok.forward rejected: ngrokManager.start() throws, start() rethrows,
\* run() catches.
TunnelFails ==
    /\ phase = "forward"
    /\ forwards > 0
    /\ forwards' = forwards - 1
    /\ lastCall' = [NoCall EXCEPT !.op = "startThrew"]
    /\ startResult' = "tunnelFailed"
    /\ phase' = runContinues("tunnelFailed")
    /\ UNCHANGED <<listener, publicUrl, tunnels, closing, opened, stopRaced>>
    /\ UNCHANGED <<webhookEnabled, autoStart, registrations>>
    /\ UNCHANGED <<webhookVars, cacheVars, messageVars>>

\* The gateway answered the PUT with a 2xx: start() returns.
RegistrationAccepted ==
    /\ phase = "register"
    /\ startResult' = "started"
    /\ phase' = runContinues("started")
    /\ UNCHANGED <<webhookEnabled, autoStart, registrations>>
    /\ UNCHANGED <<webhookVars, cacheVars, ngrokVars, messageVars>>

\* The PUT failed (WAHAError): request() does not retry, start() rethrows,
\* run() catches.
RegistrationRejected ==
    /\ phase = "register"
    /\ startResult' = "registrationFailed"
    /\ phase' = runContinues("registrationFailed")
    /\ UNCHANGED <<webhookEnabled, autoStart, registrations>>
    /\ UNCHANGED <<webhookVars, cacheVars, ngrokVars, messageVars>>

\* server.connect(transport) resolved: run() returns.
ConnectResolves ==
    /\ phase = "connect"
    /\ phase' = "running"
    /\ UNCHANGED <<webhookEnabled, autoStart, startResult, registrations>>
    /\ UNCHANGED <<webhookVars, cacheVars, ngrokVars, messageVars>>

\* server.connect(transport) rejected: run() rejects and the handler of
\* lines 2846-2849 calls process.exit(1). The process takes its HTTP server,
\* the request it was serving and its tunnels with it.
ConnectRejects ==
    /\ phase = "connect"
    /\ phase' = "exited"
    /\ server' = "null"
    /\ reqState' = "idle"
    /\ reqBody' = NoBody
    /\ reqSig' = AbsentHeader
    /\ resCode' = 0
    /\ tasks' = <<>>
    /\ handleCalls' = NoCalls
    /\ emitted' = 0
    /\ log' = NoLog
    /\ tunnels' = {}
    /\ UNCHANGED <<hmacKey, eventHandlers>>
    /\ UNCHANGED <<listener, publicUrl, forwards, closing, opened, lastCall,
                   stopRaced>>
    /\ UNCHANGED <<webhookEnabled, autoStart, startResult, registrations>>
    /\ UNCHANGED <<cacheVars, messageVars>>

\* The process from its start: the steps of run(), and the webhook requests
\* the HTTP server takes while it listens.
NextRun ==
    \/ RunBegins
    \/ ListenSucceeds
    \/ ListenFails
    \/ \E urlGiven \in BOOLEAN : TunnelOpens(urlGiven)
    \/ TunnelFails
    \/ RegistrationAccepted
    \/ RegistrationRejected
    \/ ConnectResolves
    \/ ConnectRejects
    \/ RequestStep

(***************************************************************************)
(* MessageHandler.handle                                                   *)
(***************************************************************************)
\* Strings are character sequences here. The length handle() cuts its log
\* preview to.
PreviewLength == 50

Ellipsis == <<".", ".", ".">>

MediaText == <<"[Media]">>

NoContentText == <<"[No content]">>

\* A text of n characters.
TextOf(n) == [i \in 1..n |-> "x"]

\* messageData.body: absent or empty (both falsy), short, as long as the
\* preview, and longer than it.
MessageBodies ==
    {<<>>, <<"h", "i">>, TextOf(PreviewLength), TextOf(PreviewLength + 1)}

ChatIds == {"1@c.us", "2@c.us"}

Messages ==
    [from : ChatIds, to : ChatIds, fromMe : BOOLEAN, body : MessageBodies,
     hasMedia : BOOLEAN]

NoMessage == [from |-> Undefined, to |-> Undefined, fromMe |-> FALSE,
              body |-> <<>>, hasMedia |-> FALSE]

NoNotification == [chatId |-> Undefined, from |-> Undefined,
                   fromMe |-> FALSE, text |-> <<>>, hasMedia |-> FALSE]

\* BaseEventHandler.extractChatId
extractChatIdSender(from, to, fromMe) == from

extractChatId(from, to, fromMe) == IF fromMe THEN to ELSE from

\* BaseEventHandler.truncate
truncate(text, maxLength) ==
    IF Len(text) <= maxLength
    THEN text
    ELSE SubSeq(text, 1, maxLength - 3) \o Ellipsis

\* The data object handle() builds, lines 20-41.
notificationData(m) ==
    [chatId   |-> extractChatId(m.from, m.to, m.fromMe),
     from     |-> IF m.fromMe THEN "Me" ELSE m.from,
     fromMe   |-> m.fromMe,
     text     |-> IF m.body # <<>> THEN m.body
                  ELSE IF m.hasMedia THEN MediaText ELSE NoContentText,
     hasMedia |-> m.hasMedia]

\* No message event has been handed to the handler.
MessageAtRest ==
    /\ message = NoMessage
    /\ notification = NoNotification
    /\ preview = <<>>

\* The manager's callback found the Message handler for an event and calls
\* handle(payload).
MessageArrives(m) ==
    /\ notification # NoNotification \/ message = NoMessage
    /\ message' = m
    /\ notification' = NoNotification
    /\ preview' = <<>>
    /\ UNCHANGED <<webhookVars, cacheVars, ngrokVars, runVars>>

\* handle() from its entry to `await this.emitNotification(...)`.
HandleMessage ==
    /\ message # NoMessage
    /\ notification = NoNotification
    /\ notification' = notificationData(message)
    /\ preview' = truncate(notificationData(message).text, PreviewLength)
    /\ UNCHANGED message
    /\ UNCHANGED <<webhookVars, cacheVars, ngrokVars, runVars>>

NextMessage ==
    \/ \E m \in Messages : MessageArrives(m)
    \/ HandleMessage

(***************************************************************************)
(* ResourceCache                                                           *)
(***************************************************************************)
\* CacheConfig.maxEntries (100 in ResourceManager, scaled down).
MaxEntries == 2

\* Clock readings the model lets Date.now() reach: 0 .. MaxTicks * TickMs.
MaxTicks == 3

\* readResource calls that may await their producer at the same time.
MaxReads == 2

\* set(): ttlSeconds * 1000
MsPerSecond == 1000

\* The clock advances by half a second at a time.
TickMs == MsPerSecond \div 2

\* CacheConfig.ttlSeconds (300 in the program, scaled down).
TtlSecondsInputs == {1}

\* A resource URI: its path segments and its query parameters in the order
\* written. The first two differ only in the order of their parameters.
OverviewUri == [path |-> <<"chats", "overview">>, query |-> <<"limit", "offset">>]
OverviewUriReordered ==
    [path |-> <<"chats", "overview">>, query |-> <<"offset", "limit">>]
UnknownUri == [path |-> <<"unknown", "path">>, query |-> <<>>]

Uris == {OverviewUri, OverviewUriReordered, UnknownUri}

\* waha://chat/{chatId}/messages for one chat.
MessagesUri == [path |-> <<"chat", "1@c.us", "messages">>, query |-> <<>>]

\* The URIs readResource is called with.
ReadUris == Uris \cup {MessagesUri}

\* Contents a producer may return (ResourceContent).
Contents == {"v1", "v2"}

\* get() returning null.
Miss == "<null>"

NoOp ==
    [op |-> "none", key |-> UnknownUri, present |-> FALSE, expiresAt |-> 0,
     full |-> FALSE, ret |-> Miss]

NoRead ==
    [outcome |-> "none", uri |-> UnknownUri, content |-> Miss,
     producer |-> Miss, listed |-> <<>>]

\* The cache object: its map and its access order.
CacheState == [cache |-> cache, accessOrder |-> accessOrder]

Size(c) == Cardinality(DOMAIN c)

\* Map.delete on the entry map.
MapDelete(c, key) == [k \in (DOMAIN c) \ {key} |-> c[k]]

\* Map.set on the entry map.
MapSet(c, key, entry) ==
    [k \in (DOMAIN c) \cup {key} |-> IF k = key THEN entry ELSE c[k]]

\* Variant: an entry counts as expired from the instant expiresAt on.
isExpiredFromDeadline(t, entry) == t >= entry.expiresAt

\* `Date.now() > entry.expiresAt` (get, line 32) and `now > entry.expiresAt`
\* (pruneExpired, line 138).
isExpired(t, entry) == t > entry.expiresAt

\* ResourceCache.delete(key)
\* Variant: delete forgets the access order.
deleteMapOnly(st, key) ==
    [cache |-> MapDelete(st.cache, key), accessOrder |-> st.accessOrder]

delete(st, key) ==
    [cache |-> MapDelete(st.cache, key),
     accessOrder |-> SelectSeq(st.accessOrder, LAMBDA k : k # key)]

\* Variant: a key already tracked keeps its position (insertion order).
updateAccessOrderKeepPosition(st, key) ==
    [cache |-> st.cache,
     accessOrder |-> IF \E i \in 1..Len(st.accessOrder) : st.accessOrder[i] = key
                     THEN st.accessOrder
                     ELSE Append(st.accessOrder, key)]

\* ResourceCache.updateAccessOrder(key)
updateAccessOrder(st, key) ==
    [cache |-> st.cache,
     accessOrder |-> Append(SelectSeq(st.accessOrder, LAMBDA k : k # key), key)]

\* Variant: nothing is evicted.
evictNothing(st) == st

\* ResourceCache.evictLRU()
evictLRU(st) ==
    IF Len(st.accessOrder) = 0 THEN st ELSE delete(st, st.accessOrder[1])

\* Variant: lookups never hit.
getNeverHits(st, enabled, key, t) == [st |-> st, ret |-> Miss]

\* ResourceCache.get(key) at time t: the cache afterwards and the value
\* returned.
get(st, enabled, key, t) ==
    IF ~enabled THEN [st |-> st, ret |-> Miss]
    ELSE IF key \notin DOMAIN st.cache THEN [st |-> st, ret |-> Miss]
    ELSE IF isExpired(t, st.cache[key])
         THEN [st |-> delete(st, key), ret |-> Miss]
         ELSE [st |-> updateAccessOrder(st, key), ret |-> st.cache[key].data]

\* Variant: set stores even when the cache is disabled.
setIgnoringEnabled(st, enabled, ttl, key, data, t) ==
    LET entry == [data |-> data, timestamp |-> t,
                  expiresAt |-> t + ttl * MsPerSecond]
        room == IF Size(st.cache) >= MaxEntries /\ key \notin DOMAIN st.cache
                THEN evictLRU(st) ELSE st
    IN  updateAccessOrder(
            [cache |-> MapSet(room.cache, key, entry),
             accessOrder |-> room.accessOrder], key)

\* ResourceCache.set(key, data) at time t with the configured TTL.
\* Variant: a key that is already stored keeps its entry.
setKeepsExisting(st, enabled, ttl, key, data, t) ==
    IF ~enabled \/ key \in DOMAIN st.cache THEN st
    ELSE LET entry == [data |-> data, timestamp |-> t,
                       expiresAt |-> t + ttl * MsPerSecond]
             room == IF Size(st.cache) >= MaxEntries
                     THEN evictLRU(st) ELSE st
         IN  updateAccessOrder(
                 [cache |-> MapSet(room.cache, key, entry),
                  accessOrder |-> room.accessOrder], key)

set(st, enabled, ttl, key, data, t) ==
    IF ~enabled THEN st
    ELSE LET entry == [data |-> data, timestamp |-> t,
                       expiresAt |-> t + ttl * MsPerSecond]
             room == IF Size(st.cache) >= MaxEntries /\ key \notin DOMAIN st.cache
                     THEN evictLRU(st) ELSE st
         IN  updateAccessOrder(
                 [cache |-> MapSet(room.cache, key, entry),
                  accessOrder |-> room.accessOrder], key)

\* ResourceCache.clear()
clear(st) == [cache |-> <<>>, accessOrder |-> <<>>]

\* The keys pruneExpired collects at time t.
expiredKeys(st, t) == {k \in DOMAIN st.cache : isExpired(t, st.cache[k])}

\* ResourceCache.pruneExpired() at time t: delete every collected key.
\* Variant: the sweep removes nothing.
pruneNothing(st, t) == st

\* pruneExpired(): delete every entry whose expiry has passed.
pruneExpired(st, t) ==
    [cache |-> [k \in (DOMAIN st.cache) \ expiredKeys(st, t) |-> st.cache[k]],
     accessOrder |-> SelectSeq(st.accessOrder,
                               LAMBDA k : k \notin expiredKeys(st, t))]

(***************************************************************************)
(* ResourceManager                                                         *)
(***************************************************************************)
\* ChatsOverviewResource.canHandle, ChatMessagesResource.canHandle
resourceCanHandle(r, uri) ==
    CASE r = "overview" -> uri.path = <<"chats", "overview">>
      [] r = "messages" -> /\ Len(uri.path) >= 3
                           /\ uri.path[1] = "chat"
                           /\ uri.path[3] = "messages"

\* Variant: the first registered resource, whether or not it matches.
findFirstRegistered(rs, uri) == IF Len(rs) = 0 THEN Miss ELSE rs[1]

\* ResourceManager.findResourceForUri(uri): the first registered match.
findResourceForUri(rs, uri) ==
    LET ok == {i \in 1..Len(rs) : resourceCanHandle(rs[i], uri)}
    IN  IF ok = {} THEN Miss ELSE rs[CHOOSE i \in ok : \A j \in ok : i <= j]

\* The readResource calls awaiting their producer.
RECURSIVE TotalReads(_, _)
TotalReads(rd, us) ==
    IF us = {} THEN 0
    ELSE LET u == CHOOSE x \in us : TRUE
         IN  rd[u] + TotalReads(rd, us \ {u})

\* createResourceManager: the manager constructed, both resources
\* registered, the cache empty.
InitCache ==
    /\ cacheEnabled \in BOOLEAN
    /\ ttlSeconds \in TtlSecondsInputs
    /\ cache = <<>>
    /\ accessOrder = <<>>
    /\ now = 0
    /\ resources = <<"overview", "messages">>
    /\ reads = [u \in ReadUris |-> 0]
    /\ lastOp = NoOp
    /\ lastRead = NoRead
    /\ recency = <<>>

\* The cache side while only the webhook side is explored.
CacheAtRest ==
    /\ cacheEnabled = TRUE
    /\ ttlSeconds = 1
    /\ cache = <<>>
    /\ accessOrder = <<>>
    /\ now = 0
    /\ resources = <<"overview", "messages">>
    /\ reads = [u \in ReadUris |-> 0]
    /\ lastOp = NoOp
    /\ lastRead = NoRead
    /\ recency = <<>>

\* The webhook side while only the cache side is explored.
WebhookAtRest ==
    /\ InitWebhook
    /\ hmacKey = ""

\* What a caller of the cache sees: the call, whether the key was stored,
\* until when (for a lookup), whether the cache was full (for a store), and
\* the value returned or stored.
Observed(op, key, ret) ==
    [op |-> op, key |-> key, present |-> key \in DOMAIN cache,
     expiresAt |-> IF op # "set" /\ key \in DOMAIN cache
                   THEN cache[key].expiresAt ELSE 0,
     full |-> op = "set" /\ Size(cache) >= MaxEntries, ret |-> ret]

SetCache(st) ==
    /\ cache' = st.cache
    /\ accessOrder' = st.accessOrder

\* The keys still stored, by latest access, once `key` has been accessed.
Accessed(key) ==
    recency' = Append(SelectSeq(recency,
                                LAMBDA k : k # key /\ k \in DOMAIN cache'), key)

\* The keys still stored, by latest access, when none has been accessed.
Unaccessed == recency' = SelectSeq(recency, LAMBDA k : k \in DOMAIN cache')

\* Time passes.
Tick ==
    /\ now + TickMs <= MaxTicks * TickMs
    /\ now' = now + TickMs
    /\ lastOp' = NoOp
    /\ lastRead' = NoRead
    /\ UNCHANGED <<cacheEnabled, ttlSeconds, cache, accessOrder, resources,
                   reads, recency>>
    /\ UNCHANGED <<webhookVars, ngrokVars, runVars, messageVars>>

\* cache.get(key)
CacheGet(key) ==
    LET r == get(CacheState, cacheEnabled, key, now)
    IN  /\ SetCache(r.st)
        /\ lastOp' = Observed("get", key, r.ret)
        /\ lastRead' = NoRead
        /\ IF r.ret # Miss THEN Accessed(key) ELSE Unaccessed
        /\ UNCHANGED <<cacheEnabled, ttlSeconds, now, resources, reads>>
        /\ UNCHANGED <<webhookVars, ngrokVars, runVars, messageVars>>

\* cache.has(key): get(key) !== null
CacheHas(key) ==
    LET r == get(CacheState, cacheEnabled, key, now)
    IN  /\ SetCache(r.st)
        /\ lastOp' = Observed("has", key, r.ret)
        /\ lastRead' = NoRead
        /\ IF r.ret # Miss THEN Accessed(key) ELSE Unaccessed
        /\ UNCHANGED <<cacheEnabled, ttlSeconds, now, resources, reads>>
        /\ UNCHANGED <<webhookVars, ngrokVars, runVars, messageVars>>

\* cache.set(key, data)
CacheSet(key, data) ==
    /\ SetCache(set(CacheState, cacheEnabled, ttlSeconds, key, data, now))
    /\ lastOp' = Observed("set", key, data)
    /\ lastRead' = NoRead
    /\ IF cacheEnabled THEN Accessed(key) ELSE Unaccessed
    /\ UNCHANGED <<cacheEnabled, ttlSeconds, now, resources, reads>>
    /\ UNCHANGED <<webhookVars, ngrokVars, runVars, messageVars>>

\* cache.delete(key)
CacheDelete(key) ==
    /\ SetCache(delete(CacheState, key))
    /\ lastOp' = NoOp
    /\ lastRead' = NoRead
    /\ Unaccessed
    /\ UNCHANGED <<cacheEnabled, ttlSeconds, now, resources, reads>>
    /\ UNCHANGED <<webhookVars, ngrokVars, runVars, messageVars>>

\* cache.clear(), ResourceManager.clearCache()
CacheClear ==
    /\ SetCache(clear(CacheState))
    /\ lastOp' = NoOp
    /\ lastRead' = NoRead
    /\ Unaccessed
    /\ UNCHANGED <<cacheEnabled, ttlSeconds, now, resources, reads>>
    /\ UNCHANGED <<webhookVars, ngrokVars, runVars, messageVars>>

\* cache.pruneExpired(), called directly or by the manager's interval timer.
\* The call is recorded with whether any stored entry had expired.
PruneExpired ==
    /\ SetCache(pruneExpired(CacheState, now))
    /\ lastOp' = [NoOp EXCEPT !.op = "prune",
                              !.present = expiredKeys(CacheState, now) # {}]
    /\ lastRead' = NoRead
    /\ Unaccessed
    /\ UNCHANGED <<cacheEnabled, ttlSeconds, now, resources, reads>>
    /\ UNCHANGED <<webhookVars, ngrokVars, runVars, messageVars>>

\* Variant: the key is the URI with its query parameters put in order.
cacheKeyCanonical(uri) ==
    IF uri = OverviewUriReordered THEN OverviewUri ELSE uri

\* The key readResource uses: this.cache.get(uri), this.cache.set(uri, ...).
cacheKey(uri) == uri

\* ResourceMetadata.uri of a registered resource.
uriTemplate(r) ==
    CASE r = "overview" -> "waha://chats/overview"
      [] r = "messages" -> "waha://chat/{chatId}/messages"

\* ResourceManager.listResources(), as the error message lists it.
listResources(rs) == [i \in 1..Len(rs) |-> uriTemplate(rs[i])]

\* Variant: the registry is consulted before the cache.
ReadResourceRegistryFirst(uri) ==
    LET resource == findResourceForUri(resources, uri)
        r == IF resource = Miss
             THEN [st |-> CacheState, ret |-> Miss]
             ELSE get(CacheState, cacheEnabled, cacheKey(uri), now)
    IN  /\ SetCache(r.st)
        /\ lastOp' = Observed("get", cacheKey(uri), r.ret)
        /\ IF r.ret # Miss THEN Accessed(cacheKey(uri)) ELSE Unaccessed
        /\ IF resource = Miss
           THEN /\ lastRead' = [NoRead EXCEPT !.outcome = "noHandler",
                                              !.uri = uri,
                                              !.listed = listResources(resources)]
                /\ UNCHANGED reads
           ELSE IF r.ret # Miss
           THEN /\ lastRead' = [NoRead EXCEPT !.outcome = "cached",
                                              !.uri = uri, !.content = r.ret]
                /\ UNCHANGED reads
           ELSE /\ TotalReads(reads, ReadUris) < MaxReads
                /\ lastRead' = [NoRead EXCEPT !.outcome = "invoked",
                                              !.uri = uri, !.producer = resource]
                /\ reads' = [reads EXCEPT ![uri] = @ + 1]
        /\ UNCHANGED <<cacheEnabled, ttlSeconds, now, resources>>
        /\ UNCHANGED <<webhookVars, ngrokVars, runVars, messageVars>>

\* readResource(uri), lines 57-76: the cache lookup, then the search for a
\* producer; the call returns the cached value, throws "No resource handler
\* found", or awaits resource.read(uri).
ReadResource(uri) ==
    LET r == get(CacheState, cacheEnabled, cacheKey(uri), now)
        resource == findResourceForUri(resources, uri)
    IN  /\ SetCache(r.st)
        /\ lastOp' = Observed("get", cacheKey(uri), r.ret)
        /\ IF r.ret # Miss THEN Accessed(cacheKey(uri)) ELSE Unaccessed
        /\ IF r.ret # Miss
           THEN /\ lastRead' = [NoRead EXCEPT !.outcome = "cached",
                                              !.uri = uri, !.content = r.ret]
                /\ UNCHANGED reads
           ELSE IF resource = Miss
           THEN /\ lastRead' = [NoRead EXCEPT !.outcome = "noHandler",
                                              !.uri = uri,
                                              !.listed = listResources(resources)]
                /\ UNCHANGED reads
           ELSE /\ TotalReads(reads, ReadUris) < MaxReads
                /\ lastRead' = [NoRead EXCEPT !.outcome = "invoked",
                                              !.uri = uri, !.producer = resource]
                /\ reads' = [reads EXCEPT ![uri] = @ + 1]
        /\ UNCHANGED <<cacheEnabled, ttlSeconds, now, resources>>
        /\ UNCHANGED <<webhookVars, ngrokVars, runVars, messageVars>>

\* resource.read(uri) resolved: readResource stores the content, lines 76-81.
ReadReturns(uri, content) ==
    /\ reads[uri] > 0
    /\ reads' = [reads EXCEPT ![uri] = @ - 1]
    /\ SetCache(set(CacheState, cacheEnabled, ttlSeconds, cacheKey(uri), content,
                now))
    /\ lastOp' = Observed("set", cacheKey(uri), content)
    /\ lastRead' = [NoRead EXCEPT !.outcome = "returned", !.uri = uri,
                                  !.content = content]
    /\ IF cacheEnabled THEN Accessed(cacheKey(uri)) ELSE Unaccessed
    /\ UNCHANGED <<cacheEnabled, ttlSeconds, now, resources>>
    /\ UNCHANGED <<webhookVars, ngrokVars, runVars, messageVars>>

\* Variant: a failed read is stored like a result.
ReadThrowsAndStores(uri) ==
    /\ reads[uri] > 0
    /\ reads' = [reads EXCEPT ![uri] = @ - 1]
    /\ SetCache(set(CacheState, cacheEnabled, ttlSeconds, cacheKey(uri), "error",
                now))
    /\ lastOp' = NoOp
    /\ lastRead' = [NoRead EXCEPT !.outcome = "threw", !.uri = uri]
    /\ IF cacheEnabled THEN Accessed(cacheKey(uri)) ELSE Unaccessed
    /\ UNCHANGED <<cacheEnabled, ttlSeconds, now, resources>>
    /\ UNCHANGED <<webhookVars, ngrokVars, runVars, messageVars>>

\* resource.read(uri) rejected: readResource throws, nothing is stored.
ReadThrows(uri) ==
    /\ reads[uri] > 0
    /\ reads' = [reads EXCEPT ![uri] = @ - 1]
    /\ lastOp' = NoOp
    /\ lastRead' = [NoRead EXCEPT !.outcome = "threw", !.uri = uri]
    /\ UNCHANGED <<cacheEnabled, ttlSeconds, cache, accessOrder, now,
                   resources, recency>>
    /\ UNCHANGED <<webhookVars, ngrokVars, runVars, messageVars>>

\* readResource(uri) called while no other read awaits its producer.
ReadAlone(uri) ==
    /\ \A u \in ReadUris : reads[u] = 0
    /\ ReadResource(uri)

\* The cache API called directly, interleaved with a read through the manager.
NextCache ==
    \/ Tick
    \/ \E k \in Uris :
         \/ CacheGet(k)
         \/ CacheHas(k)
         \/ \E d \in Contents : CacheSet(k, d)
         \/ CacheDelete(k)
         \/ ReadAlone(k)
         \/ \E d \in Contents : ReadReturns(k, d)
         \/ ReadThrows(k)
    \/ CacheClear
    \/ PruneExpired

\* The manager as the program uses it: reads, clearCache and the prune timer.
NextReads ==
    \/ Tick
    \/ \E k \in ReadUris :
         \/ ReadResource(k)
         \/ \E d \in Contents : ReadReturns(k, d)
         \/ ReadThrows(k)
    \/ CacheClear
    \/ PruneExpired

InitResources ==
    InitCache /\ WebhookAtRest /\ InitNgrok /\ RunAtRest /\ MessageAtRest

SpecCache == InitResources /\ [][NextCache]_vars

SpecReads == InitResources /\ [][NextReads]_vars

\* Reads of URIs that have a producer, overlapping freely, and the clock.
ProducedUris == {OverviewUri, MessagesUri}

NextOverlap ==
    \/ Tick
    \/ \E k \in ProducedUris :
         \/ ReadResource(k)
         \/ \E d \in Contents : ReadReturns(k, d)
         \/ ReadThrows(k)
    \/ CacheClear

SpecOverlap == InitResources /\ [][NextOverlap]_vars

\* The interval timer the ResourceManager constructor installs when caching
\* is enabled: it calls cache.pruneExpired().
PruneTimerFires ==
    /\ cacheEnabled
    /\ PruneExpired

\* The resources createResourceManager constructs.
ResourceNames == {"overview", "messages"}

\* register(resource): this.resources.set(metadata.uri, resource). A Map
\* keeps the position of a key it already holds.
Register(r) ==
    /\ resources' = IF \E i \in 1..Len(resources) :
                          uriTemplate(resources[i]) = uriTemplate(r)
                    THEN resources
                    ELSE Append(resources, r)
    /\ lastOp' = NoOp
    /\ lastRead' = NoRead
    /\ UNCHANGED <<cacheEnabled, ttlSeconds, cache, accessOrder, now, reads,
                   recency>>
    /\ UNCHANGED <<webhookVars, ngrokVars, runVars, messageVars>>

\* unregister(uri): this.resources.delete(uri), uri being the key the
\* resource was registered under. The cache is not touched.
Unregister(template) ==
    /\ resources' = SelectSeq(resources,
                              LAMBDA r : uriTemplate(r) # template)
    /\ lastOp' = NoOp
    /\ lastRead' = NoRead
    /\ UNCHANGED <<cacheEnabled, ttlSeconds, cache, accessOrder, now, reads,
                   recency>>
    /\ UNCHANGED <<webhookVars, ngrokVars, runVars, messageVars>>

\* Reads one at a time while producers are registered and unregistered.
NextRegistry ==
    \/ Tick
    \/ \E k \in ProducedUris :
         \/ ReadAlone(k)
         \/ \E d \in Contents : ReadReturns(k, d)
         \/ ReadThrows(k)
    \/ \E r \in ResourceNames : Register(r) \/ Unregister(uriTemplate(r))
    \/ CacheClear
    \/ PruneTimerFires

SpecRegistry == InitResources /\ [][NextRegistry]_vars

\* Reads one at a time, the clock and the prune timer.
NextTimer ==
    \/ Tick
    \/ \E k \in Uris :
         \/ ReadAlone(k)
         \/ \E d \in Contents : ReadReturns(k, d)
         \/ ReadThrows(k)
    \/ PruneTimerFires

SpecTimer == InitResources /\ [][NextTimer]_vars

\* setInterval keeps firing for as long as the process runs.
SpecTimerFair == SpecTimer /\ WF_vars(PruneTimerFires)

\* CacheConfig.ttlSeconds is any number the constructor is given: it is not
\* validated. Zero is the least of the values that make sense as a duration.
AnyTtlSeconds == {0, 1}

InitAnyTtl ==
    /\ cacheEnabled = TRUE
    /\ ttlSeconds \in AnyTtlSeconds
    /\ cache = <<>>
    /\ accessOrder = <<>>
    /\ now = 0
    /\ resources = <<"overview", "messages">>
    /\ reads = [u \in ReadUris |-> 0]
    /\ lastOp = NoOp
    /\ lastRead = NoRead
    /\ recency = <<>>
    /\ WebhookAtRest /\ InitNgrok /\ RunAtRest /\ MessageAtRest

SpecAnyTtl == InitAnyTtl /\ [][NextTimer]_vars

InitTunnel ==
    InitNgrok /\ WebhookAtRest /\ CacheAtRest /\ RunAtRest /\ MessageAtRest

SpecNgrok == InitTunnel /\ [][NextNgrok]_vars

(***************************************************************************)
(* Specifications                                                          *)
(***************************************************************************)
\* The program as WebhookManager wires it: one wildcard callback.
NextWired ==
    \/ ServerStart
    \/ ServerStop
    \/ RequestStep

\* WebhookServer with further callbacks registered through on/onAll.
NextWebhook ==
    \/ NextWired
    \/ \E k \in EventKeys : \E cb \in ExtraCallbacks : On(k, cb)

InitWired ==
    InitWebhook /\ CacheAtRest /\ InitNgrok /\ RunAtRest /\ MessageAtRest

SpecWired == InitWired /\ [][NextWired]_vars

SpecWebhook == InitWired /\ [][NextWebhook]_vars

\* The event loop runs every continuation that is ready, and a promise that
\* settles resumes its awaiter: weak fairness of the server's own steps and
\* of the settling of a notification. Whether a notification settles at all
\* is the collaborator's choice (NotificationHangs).
FairWired ==
    /\ WF_vars(Respond)
    /\ WF_vars(RequestDone)
    /\ \A i \in 1..(1 + MaxExtraHandlers) :
          /\ WF_vars(WrapperResume(i))
          /\ WF_vars(\E d \in BOOLEAN : NotificationSettles(i, d))

SpecWiredFair == SpecWired /\ FairWired

\* The whole process from `new WAHAMCPServer()` on.
InitProcess ==
    InitWebhook /\ InitNgrok /\ InitRun /\ CacheAtRest /\ MessageAtRest

SpecRun == InitProcess /\ [][NextRun]_vars

\* The Message handler alone, over every payload.
InitMessage ==
    MessageAtRest /\ WebhookAtRest /\ InitNgrok /\ RunAtRest /\ CacheAtRest

SpecMessage == InitMessage /\ [][NextMessage]_vars

(***************************************************************************)
(* Properties                                                              *)
(***************************************************************************)
\* The request in flight was dispatched or answered.
Received == reqState \in {"awaiting", "responded"}

\* The hex HMAC-SHA256 of the request's raw body under the configured key.
ExpectedSignature == HexDigest(hmacKey, reqBody)

\* A secret is configured and the header is absent or is not that digest.
BadSignature ==
    /\ hmacKey # ""
    /\ reqSig = AbsentHeader \/ reqSig # ExpectedSignature

NothingDispatched ==
    /\ tasks = <<>>
    /\ handleCalls = NoCalls
    /\ emitted = 0

C2_InvalidPayloadRejected ==
    (Received /\ ~BadSignature /\ reqBody.event \in {Undefined, ""}) =>
        /\ reqState = "responded"
        /\ resCode = 400
        /\ NothingDispatched

\* A correctly signed request with an empty event field was answered 400.
C2_Witness ==
    /\ resCode = 400
    /\ hmacKey # ""
    /\ reqSig = ExpectedSignature
    /\ reqBody.event = ""

\* C3: the success response is sent only after every handler invoked for
\* the event has finished: when the status is 200 no wrapper of the request
\* is still running (pending, hung, or not yet resumed).
C3_SuccessOnlyAfterAllHandlers ==
    resCode = 200 => \A i \in 1..Len(tasks) : tasks[i].st = "done"

\* A request dispatched to several handlers was answered 200.
C3_Witness ==
    /\ resCode = 200
    /\ Len(tasks) >= 2
    /\ \E i \in 1..Len(tasks) : tasks[i].emitted

\* The request passed authentication and validation and was dispatched.
Dispatched ==
    /\ Received
    /\ ~BadSignature
    /\ reqBody.event \notin {Undefined, ""}

\* The registrations an event matches: those under its own key and those
\* under the wildcard key, each registration counted once.
MatchingRegistrations(eventType) ==
    {r \in (({eventType} \cap EventKeys) \cup {"*"}) \X (1..(1 + MaxExtraHandlers)) :
        r[2] <= Len(registered(r[1]))}

\* Wrappers that ran an event handler's handle(), and those among them
\* whose handler threw.
NumHandled(ts) == Cardinality({i \in 1..Len(ts) : ts[i].h # Undefined})
NumThrew(ts) == Cardinality({i \in 1..Len(ts) : ts[i].threw})

C4_StateClaim ==
    Dispatched =>
        /\ \A i \in 1..Len(tasks) : tasks[i].st # "notStarted"
        /\ NumThrew(tasks) < NumHandled(tasks) =>
              emitted = NumHandled(tasks) - NumThrew(tasks)
        /\ resCode = 200 => \A i \in 1..Len(tasks) : tasks[i].st = "done"

C4_InvokedOnce ==
    (reqState = "idle" /\ reqState' = "awaiting") =>
        \A c \in {"mgr"} \cup ExtraCallbacks :
            Cardinality({i \in 1..Len(tasks') : tasks'[i].cb = c})
              = Cardinality({r \in MatchingRegistrations(reqBody'.event) :
                               registered(r[1])[r[2]] = c})

\* C4: when an event is dispatched to N matching handlers of which k throw
\* (k < N), all N are started before any is awaited, each is invoked exactly
\* once (one wrapper per matching registration), a throwing handler does not
\* keep another from completing, and exactly N-k notifications are handed to
\* the emitter.
C4_ConcurrentIsolatedDispatch ==
    []C4_StateClaim /\ [][C4_InvokedOnce]_vars

\* C5: a handler exception never leaves dispatch and never changes the
\* response: for an authenticated, valid request no wrapper ever rejects,
\* the status is never 500, and the response, once sent, is 200.
C5_HandlerErrorsNeverFailRequest ==
    (Received /\ ~BadSignature /\ reqBody.event \notin {Undefined, ""}) =>
        /\ \A i \in 1..Len(tasks) : tasks[i].st # "rejected"
        /\ resCode \in {0, 200}
        /\ reqState = "responded" => resCode = 200

\* A request all of whose handlers threw was answered 200.
C5_Witness ==
    /\ resCode = 200
    /\ Len(tasks) >= 2
    /\ \A i \in 1..Len(tasks) : tasks[i].threw

Unrecognized(eventType) ==
    \A i \in 1..Len(Handlers) : ~canHandle(Handlers[i], eventType)

\* C6: for every accepted event whose type no registered handler
\* recognizes, dispatch succeeds (the response is 200), no notification is
\* emitted and exactly one "unrecognized event" line is logged.
C6_UnrecognizedEventOneLogLine ==
    (Dispatched /\ Unrecognized(reqBody.event)) =>
        /\ emitted = 0
        /\ resCode \in {0, 200}
        /\ log.noHandlersRegistered + log.noHandlerFound = 1

\* C7: for every accepted event each registered event handler whose
\* canHandle is true of the event type is invoked exactly once and no other
\* is invoked; "message" invokes the Message handler only, "message.ack" the
\* Ack handler only, "state.change" the State handler only.
C7_ExactlyMatchingHandlersInvoked ==
    Dispatched =>
        /\ \A i \in 1..Len(Handlers) :
              handleCalls[Handlers[i]] =
                IF canHandle(Handlers[i], reqBody.event) THEN 1 ELSE 0
        /\ reqBody.event = "message" =>
              handleCalls = [NoCalls EXCEPT !["message"] = 1]
        /\ reqBody.event = "message.ack" =>
              handleCalls = [NoCalls EXCEPT !["ack"] = 1]
        /\ reqBody.event = "state.change" =>
              handleCalls = [NoCalls EXCEPT !["state"] = 1]

\* A message.ack event was answered after the Ack handler ran.
C7_Witness ==
    /\ resCode = 200
    /\ reqBody.event = "message.ack"
    /\ handleCalls["ack"] = 1

\* C8: every request gets a response, even if a handler never completes.
C8_EveryRequestAnswered ==
    (reqState = "awaiting") ~> (reqState = "responded")

\* ---- resource cache ----
CacheLookup == lastOp.op = "get"

\* C9: under every sequence of get, set, has, delete, clear and pruneExpired
\* calls, interleaved in any way with reads awaiting their producer, the
\* cache never holds more than maxEntries entries.
C9_SizeNeverExceedsMaxEntries ==
    /\ Size(cache) <= MaxEntries
    /\ Len(accessOrder) <= MaxEntries

\* A new key was stored into a full cache while another read was in flight.
C9_Witness ==
    /\ lastOp.op = "set"
    /\ lastOp.full
    /\ ~lastOp.present
    /\ lastOp.key \in DOMAIN cache
    /\ Size(cache) = MaxEntries
    /\ TotalReads(reads, ReadUris) > 0

\* C10: get returns a stored value only while now < expiresAt, and
\* in every other case where the key is stored it removes the entry and
\* returns a miss.
C10_GetOnlyStrictlyBeforeExpiry ==
    CacheLookup =>
        /\ lastOp.ret # Miss => now < lastOp.expiresAt
        /\ (lastOp.present /\ ~(now < lastOp.expiresAt)) =>
               /\ lastOp.ret = Miss
               /\ lastOp.key \notin DOMAIN cache

\* What get does guarantee: a stored value is returned only while
\* now <= expiresAt (the entry is still served at the instant now =
\* expiresAt), and whenever the key is stored and now > expiresAt the entry
\* is removed and the call misses.
GetServesUntilExpiry ==
    CacheLookup =>
        /\ lastOp.ret # Miss =>
               /\ lastOp.present
               /\ now <= lastOp.expiresAt
               /\ lastOp.key \in DOMAIN cache
               /\ lastOp.ret = cache[lastOp.key].data
        /\ (lastOp.present /\ now > lastOp.expiresAt) =>
               /\ lastOp.ret = Miss
               /\ lastOp.key \notin DOMAIN cache

\* get served an entry at the very instant it expires.
ServedAtExpiry ==
    /\ CacheLookup
    /\ lastOp.present
    /\ lastOp.ret # Miss
    /\ now = lastOp.expiresAt

\* This step stored a new key into a full cache.
StoresIntoFullCache ==
    /\ lastOp'.op = "set"
    /\ lastOp'.full
    /\ ~lastOp'.present
    /\ cacheEnabled

\* C11: a set of a new key on a cache at capacity evicts exactly one entry,
\* the key whose latest access (successful get or set) is the oldest of all
\* stored keys, and leaves every other entry in the cache as it was.
C11_EvictsLeastRecentlyAccessed ==
    [][StoresIntoFullCache =>
         /\ Len(recency) > 0
         /\ recency[1] \in DOMAIN cache
         /\ DOMAIN cache' = ((DOMAIN cache) \ {recency[1]}) \cup {lastOp'.key}
         /\ \A k \in (DOMAIN cache) \ {recency[1]} : cache'[k] = cache[k]]_vars

\* A new key has just been stored into a full cache and an entry stored
\* before it is still there.
C11_Witness ==
    /\ lastOp.op = "set"
    /\ lastOp.full
    /\ ~lastOp.present
    /\ Size(cache) = MaxEntries
    /\ recency[Len(recency)] = lastOp.key
    /\ \E k \in DOMAIN cache : k # lastOp.key /\ cache[k].timestamp < now

\* This step looked up a key that was stored when the call was made.
LooksUpStoredKey ==
    /\ lastOp'.op = "get"
    /\ cacheEnabled
    /\ lastOp'.key \in DOMAIN cache

\* C12: with the cache enabled, get(k) of a key stored by set(k, v) and not
\* removed since returns v while the TTL has not elapsed, and misses once the
\* TTL has elapsed.
C12_SetThenGet ==
    [][LooksUpStoredKey =>
         LET entry == cache[lastOp'.key]
         IN  IF now - entry.timestamp < ttlSeconds * MsPerSecond
             THEN lastOp'.ret = entry.data
             ELSE lastOp'.ret = Miss]_vars

\* What get does guarantee for a stored key: v until the TTL has been
\* exceeded (still v at the instant it elapses), a miss afterwards.
SetThenGetUntilExpiry ==
    [][LooksUpStoredKey =>
         LET entry == cache[lastOp'.key]
         IN  IF now - entry.timestamp <= ttlSeconds * MsPerSecond
             THEN lastOp'.ret = entry.data
             ELSE lastOp'.ret = Miss]_vars

\* C13: with enabled = false every get (and has) misses, every set leaves
\* the cache contents and the access order unchanged, and every read of a
\* URI some producer handles invokes that producer, never the cache.
C13_DisabledCacheIsInert ==
    [][~cacheEnabled =>
         /\ lastOp'.op \in {"get", "has"} => lastOp'.ret = Miss
         /\ lastOp'.op = "set" => /\ cache' = cache
                                  /\ accessOrder' = accessOrder
         /\ lastRead'.outcome # "cached"
         /\ (lastOp'.op = "get" /\ lastRead'.outcome # "none"
               /\ findResourceForUri(resources, lastRead'.uri) # Miss) =>
               /\ lastRead'.outcome = "invoked"
               /\ reads'[lastRead'.uri] = reads[lastRead'.uri] + 1
         /\ cache' = <<>>]_vars

\* With the cache disabled, a read has returned its producer's content and
\* the set that followed stored nothing.
C13_Witness ==
    /\ ~cacheEnabled
    /\ lastOp.op = "set"
    /\ lastRead.outcome = "returned"
    /\ cache = <<>>
    /\ accessOrder = <<>>

\* The stored keys whose expiresAt has passed.
PastExpiry == {k \in DOMAIN cache : now > cache[k].expiresAt}

\* C14: pruneExpired removes every entry whose expiresAt has passed and no
\* other entry, wherever the key stands in the access order, and a second
\* call right after the first changes nothing.
C14_PruneRemovesExactlyExpired ==
    [][lastOp'.op = "prune" =>
         /\ DOMAIN cache' = (DOMAIN cache) \ PastExpiry
         /\ \A k \in DOMAIN cache' : cache'[k] = cache[k]
         /\ accessOrder' = SelectSeq(accessOrder, LAMBDA k : k \notin PastExpiry)
         /\ lastOp'.present = (PastExpiry # {})
         /\ lastOp.op = "prune" => /\ cache' = cache
                                   /\ accessOrder' = accessOrder]_vars

\* pruneExpired has just removed an expired entry and kept an unexpired one.
C14_Witness ==
    /\ lastOp.op = "prune"
    /\ lastOp.present
    /\ cache # <<>>
    /\ \A k \in DOMAIN cache : now <= cache[k].expiresAt

\* ---- resource reads ----
\* This step was the synchronous start of a readResource call.
ReadStarts == lastRead'.outcome \in {"cached", "noHandler", "invoked"}

\* The URI read was stored less than a TTL ago when the call was made.
StoredWithinTtl(uri) ==
    /\ uri \in DOMAIN cache
    /\ now - cache[uri].timestamp < ttlSeconds * MsPerSecond

\* C15: with caching enabled, a first read of a URI misses, invokes the
\* matching producer and stores the content under the exact URI; a second
\* read of that URI within the TTL window is served from the cache with the
\* same content and invokes no producer.
C15_SecondReadServedFromCache ==
    [][cacheEnabled =>
         /\ (ReadStarts /\ lastRead'.uri \notin DOMAIN cache
               /\ findResourceForUri(resources, lastRead'.uri) # Miss) =>
               /\ lastRead'.outcome = "invoked"
               /\ lastRead'.producer = findResourceForUri(resources, lastRead'.uri)
               /\ reads'[lastRead'.uri] = reads[lastRead'.uri] + 1
         /\ lastRead'.outcome = "returned" =>
               /\ lastRead'.uri \in DOMAIN cache'
               /\ cache'[lastRead'.uri].data = lastRead'.content
               /\ cache'[lastRead'.uri].timestamp = now
               /\ \A u \in (DOMAIN cache') \ {lastRead'.uri} : cache'[u] = cache[u]
         /\ (ReadStarts /\ StoredWithinTtl(lastRead'.uri)) =>
               /\ lastRead'.outcome = "cached"
               /\ lastRead'.content = cache[lastRead'.uri].data
               /\ reads' = reads]_vars

\* A second read, later than the first but within the TTL window, has just
\* been served the stored content.
C15_Witness ==
    /\ cacheEnabled
    /\ lastRead.outcome = "cached"
    /\ lastRead.uri = OverviewUri
    /\ lastRead.uri \in DOMAIN cache
    /\ lastRead.content = cache[lastRead.uri].data
    /\ cache[lastRead.uri].timestamp < now
    /\ now < cache[lastRead.uri].expiresAt
    /\ TotalReads(reads, ReadUris) = 0

\* Two different URIs with the same path and the same query parameters.
SameButForOrder(u, v) ==
    /\ u # v
    /\ u.path = v.path
    /\ {u.query[i] : i \in 1..Len(u.query)} = {v.query[i] : i \in 1..Len(v.query)}

\* C16: the cache key is the literal request URI. A read is served from the
\* cache only out of the entry stored under exactly its URI; a read whose
\* URI is not stored invokes the producer even when a URI differing only in
\* the order of its query parameters is stored; and its result is stored as
\* an entry of its own, leaving the other entry as it was.
C16_LiteralCacheKey ==
    [][/\ lastRead'.outcome = "cached" =>
             /\ lastRead'.uri \in DOMAIN cache
             /\ lastRead'.content = cache[lastRead'.uri].data
       /\ \A v \in DOMAIN cache :
             (ReadStarts /\ SameButForOrder(lastRead'.uri, v)
                /\ lastRead'.uri \notin DOMAIN cache) =>
                /\ lastRead'.outcome = "invoked"
                /\ reads'[lastRead'.uri] = reads[lastRead'.uri] + 1
       /\ \A v \in DOMAIN cache :
             (lastRead'.outcome = "returned" /\ cacheEnabled
                /\ SameButForOrder(lastRead'.uri, v) /\ v \in DOMAIN cache') =>
                /\ cache'[v] = cache[v]
                /\ cache'[lastRead'.uri].data = lastRead'.content]_vars

\* Both orderings of the same query have been read and each holds its own
\* entry, with different contents.
C16_Witness ==
    /\ lastRead.outcome = "returned"
    /\ lastRead.uri = OverviewUriReordered
    /\ OverviewUri \in DOMAIN cache
    /\ OverviewUriReordered \in DOMAIN cache
    /\ cache[OverviewUri].data # cache[OverviewUriReordered].data

\* No registered producer's predicate matches the URI.
NoProducerMatches(uri) ==
    \A i \in 1..Len(resources) : ~resourceCanHandle(resources[i], uri)

\* C17: a read of a URI that is not cached and that no registered producer
\* matches fails with the "no handler" error, whose message lists the URI
\* template of every registered producer; no producer is invoked and nothing
\* is stored.
C17_NoHandlerError ==
    [][(ReadStarts /\ lastRead'.uri \notin DOMAIN cache
          /\ NoProducerMatches(lastRead'.uri)) =>
          /\ lastRead'.outcome = "noHandler"
          /\ Len(lastRead'.listed) = Len(resources)
          /\ \A i \in 1..Len(resources) :
                lastRead'.listed[i] = uriTemplate(resources[i])
          /\ reads' = reads
          /\ cache' = cache
          /\ accessOrder' = accessOrder]_vars

\* The unknown URI has just been refused while other content is cached and
\* another read is awaiting its producer.
C17_Witness ==
    /\ lastRead.outcome = "noHandler"
    /\ lastRead.uri = UnknownUri
    /\ lastRead.listed = <<"waha://chats/overview", "waha://chat/{chatId}/messages">>
    /\ UnknownUri \notin DOMAIN cache
    /\ cache # <<>>
    /\ TotalReads(reads, ReadUris) > 0

\* ---- tunnel lifecycle ----
\* C18: start() while a tunnel is active is a no-op returning the existing
\* URL: it requests no tunnel from the provider, so at most one tunnel is
\* open after any sequence of start() and stop() calls.
C18_StartWhileActiveIsNoOp ==
    /\ [](Cardinality(tunnels) <= 1)
    /\ [][(lastCall'.op = "start" /\ lastCall'.wasActive) =>
             /\ forwards' = forwards
             /\ UNCHANGED <<listener, publicUrl, tunnels>>]_vars

\* Every start() and stop() that was running has completed.
CallsCompleted == forwards = 0 /\ SumOver(closing, Handles) = 0

\* C19: when stop() is called while a start() is waiting for the provider,
\* stop wins: once both have completed the manager is inactive,
\* getPublicUrl() is null and no tunnel is open at the provider.
C19_StopWinsOverPendingStart ==
    (stopRaced /\ CallsCompleted) =>
        /\ ~isActive
        /\ getPublicUrl = NullUrl
        /\ tunnels = {}

\* getPublicUrl() is null whenever the manager is inactive.
NullWhenInactive == ~isActive => getPublicUrl = NullUrl

\* C20: getPublicUrl() returns null whenever the tunnel is inactive: before
\* the first successful start(), after a failed start(), and after every
\* stop() that has returned, which clears the listener and the URL.
C20_NullUrlWhenInactive ==
    /\ NullWhenInactive
    /\ lastCall.op = "stopReturned" =>
          /\ listener = NoListener
          /\ getPublicUrl = NullUrl

\* The provider's answer to the pending forward left the manager without a
\* public URL: the tunnel could not be established.
TunnelNotEstablished ==
    /\ phase = "forward"
    /\ forwards' < forwards
    /\ publicUrl' = NullUrl

\* C21: when the provider cannot establish a tunnel, the tunnel manager's
\* start() throws and the pipeline's start() throws with it, no registration
\* request is made to the gateway then or later, and the process does not
\* exit: run() catches the error and goes on to connect the protocol server.
C21_TunnelFailureIsCaught ==
    /\ [](startResult = "tunnelFailed" => registrations = <<>>)
    /\ [][TunnelNotEstablished =>
             /\ lastCall'.op = "startThrew"
             /\ startResult' = "tunnelFailed"
             /\ registrations' = <<>>
             /\ phase' = "connect"]_vars

C21_Witness ==
    /\ startResult = "tunnelFailed"
    /\ lastCall.op = "startThrew"
    /\ phase = "running"

\* Pipeline startup failed because of the tunnel and the process lives on.
ContinuesWithoutTunnel == startResult = "tunnelFailed" /\ phase # "exited"

\* C22: after pipeline startup failed because of a tunnel failure, the
\* ingest HTTP server is not listening and no webhook request is taken in
\* (authenticated, dispatched) while the process continues.
C22_WebhooksDisabledAfterTunnelFailure ==
    /\ [](ContinuesWithoutTunnel => server # "listening")
    /\ [][ContinuesWithoutTunnel => ~(reqState = "idle" /\ reqState' # "idle")]_vars

\* C24: a run of pipeline startup makes at most one registration request,
\* and makes it only once the HTTP server listens and the tunnel has given
\* a public URL; the request names publicUrl followed by /webhook, the three
\* subscribed event types, and the secret exactly when one is configured.
C24_RegistersOnceAfterTunnel ==
    /\ [](Len(registrations) <= 1)
    /\ [][registrations' # registrations =>
             LET r == registrations'[Len(registrations')]
             IN  /\ registrations = <<>>
                 /\ server = "listening"
                 /\ publicUrl' # NullUrl
                 /\ lastCall'.op = "startReturned"
                 /\ r.url = publicUrl' \o <<"/webhook">>
                 /\ r.events = <<"message", "message.ack", "state.change">>
                 /\ hmacKey # "" => r.hmac = hmacKey
                 /\ hmacKey = "" => r.hmac = Undefined]_vars

C24_Witness ==
    /\ Len(registrations) = 1
    /\ hmacKey = ""
    /\ startResult = "started"
    /\ server = "listening"

\* handle() has built the notification for the message it was given.
Handled == notification # NoNotification

\* The chat is the recipient of a message sent by the monitored account and
\* the sender of any other.
ChatIsTheOtherParty ==
    Handled =>
        /\ message.fromMe => notification.chatId = message.to
        /\ ~message.fromMe => notification.chatId = message.from

\* C26 as stated: for every message event the notification's chatId is the
\* payload's 'to' when fromMe is true and its 'from' when fromMe is false,
\* and the notification's text is the full body.
C26_ChatIdAndFullBody ==
    /\ ChatIsTheOtherParty
    /\ Handled => notification.text = message.body

\* C26, amended: the chatId is as stated; the text is the full body, never
\* the truncated preview, whenever the body is non-empty, and for an absent
\* or empty body it is "[Media]" (hasMedia) or "[No content]".
C26_ChatIdAndUntruncatedText ==
    /\ ChatIsTheOtherParty
    /\ (Handled /\ message.body # <<>>) => notification.text = message.body
    /\ (Handled /\ message.body = <<>>) =>
          notification.text =
              IF message.hasMedia THEN <<"[Media]">> ELSE <<"[No content]">>

C26_Witness ==
    /\ Handled
    /\ message.fromMe
    /\ message.to # message.from
    /\ Len(message.body) > PreviewLength
    /\ notification.text = message.body
    /\ Len(preview) = PreviewLength

\* The entry stored under key k is past its expiry.
StoredExpired(k) == k \in DOMAIN cache /\ now > cache[k].expiresAt

\* C23: with caching enabled, an entry whose TTL has passed is eventually
\* removed, whether or not it is read again: the interval timer keeps
\* calling pruneExpired().
C23_ExpiredEntriesEventuallyRemoved ==
    \A k \in Uris : StoredExpired(k) ~> ~StoredExpired(k)

C23_Witness ==
    /\ cacheEnabled
    /\ lastOp.op = "prune"
    /\ lastOp.present
    /\ lastRead = NoRead
    /\ cache = <<>>

\* C25: every stored entry expires strictly after the time it was stored,
\* whatever TTL is configured and whenever set is called.
C25_ExpiresAfterStored ==
    \A k \in DOMAIN cache : cache[k].expiresAt > cache[k].timestamp

\* C27: accessOrder holds exactly the keys currently stored, each of them
\* exactly once.
C27_AccessOrderIsTheStoredKeys ==
    /\ {accessOrder[i] : i \in DOMAIN accessOrder} = DOMAIN cache
    /\ \A i, j \in DOMAIN accessOrder : accessOrder[i] = accessOrder[j] => i = j

\* A lookup found its key expired and dropped it while another key stays.
C27_Witness ==
    /\ lastOp.op = "get"
    /\ lastOp.present
    /\ lastOp.ret = Miss
    /\ lastOp.key \notin DOMAIN cache
    /\ cache # <<>>

\* A read of a URI that is not stored starts while an earlier read of the
\* same URI still awaits its producer.
SecondReadStarts ==
    /\ ReadStarts
    /\ lastRead'.uri \notin DOMAIN cache
    /\ reads[lastRead'.uri] > 0

\* C28: reads in flight are not coalesced. A read of an uncached URI that
\* starts while another read of it awaits the producer invokes the producer
\* itself; every read that completes stores its own result over whatever is
\* stored, so that once both have completed the cache holds one entry for
\* the URI, with the result of the read that completed last.
C28_ReadsInFlightNotCoalesced ==
    [][/\ SecondReadStarts =>
             /\ lastRead'.outcome = "invoked"
             /\ reads'[lastRead'.uri] = reads[lastRead'.uri] + 1
       /\ (cacheEnabled /\ lastRead'.outcome = "returned") =>
             /\ lastRead'.uri \in DOMAIN cache'
             /\ cache'[lastRead'.uri].data = lastRead'.content
             /\ Cardinality({i \in DOMAIN accessOrder' :
                                accessOrder'[i] = lastRead'.uri}) = 1
             /\ lastRead'.uri \in DOMAIN cache => Size(cache') = Size(cache)]_vars

\* Two reads of the same uncached URI await the producer at once.
C28_Witness ==
    /\ cacheEnabled
    /\ lastRead.outcome = "invoked"
    /\ reads[lastRead.uri] = 2
    /\ lastRead.uri \notin DOMAIN cache

\* C29: when the producer's read fails the error reaches the caller, the
\* cache and its access order stay as they were, and a read of the same URI
\* that follows invokes the producer again (the URI not being stored).
C29_FailedReadLeavesCacheAlone ==
    [][/\ lastRead'.outcome = "threw" =>
             /\ cache' = cache
             /\ accessOrder' = accessOrder
             /\ reads'[lastRead'.uri] = reads[lastRead'.uri] - 1
       /\ (lastRead.outcome = "threw" /\ ReadStarts
             /\ lastRead'.uri = lastRead.uri
             /\ lastRead.uri \notin DOMAIN cache) =>
             /\ lastRead'.outcome = "invoked"
             /\ reads'[lastRead'.uri] = reads[lastRead'.uri] + 1]_vars

\* A read has just failed while another URI is stored; its own is not.
C29_Witness ==
    /\ cacheEnabled
    /\ lastRead.outcome = "threw"
    /\ lastRead.uri \notin DOMAIN cache
    /\ cache # <<>>

\* The URI is stored and its entry has not reached its expiry.
CachedUnexpired(uri) == uri \in DOMAIN cache /\ now < cache[uri].expiresAt

\* C30: the cache is consulted before the registry. A read of a URI whose
\* result is cached and unexpired is served from the cache even when no
\* registered producer matches it any more, and the "no handler" error is
\* raised only for a URI that is no longer stored (evicted, cleared, pruned)
\* or whose entry has expired.
C30_CacheBeforeRegistry ==
    [][/\ (ReadStarts /\ CachedUnexpired(lastRead'.uri)) =>
             /\ lastRead'.outcome = "cached"
             /\ lastRead'.content = cache[lastRead'.uri].data
       /\ lastRead'.outcome = "noHandler" =>
             /\ NoProducerMatches(lastRead'.uri)
             /\ ~CachedUnexpired(lastRead'.uri)]_vars

\* A read has just been served from the cache although its producer is no
\* longer registered.
C30_Witness ==
    /\ lastRead.outcome = "cached"
    /\ NoProducerMatches(lastRead.uri)
    /\ lastRead.uri \in DOMAIN cache
    /\ now < cache[lastRead.uri].expiresAt

====
